---------------------------- MODULE Spec2Model ----------------------------
(* A model of kinship.py: the family graph built by Family.__init__, the    *)
(* breadth-first traversal of Person.connections, and the selection of the  *)
(* lowest common relative in Person.relation_to.                            *)
(*                                                                          *)
(* A Person object is identified by its name (Family.people holds one       *)
(* Person per name).  Names are the integers 1..n; None is 0.  A Python     *)
(* string is a sequence of one-character strings.                           *)
EXTENDS Integers, Sequences, FiniteSets, TLC

VARIABLES dict1, people, pc, start, cdict, queue, person, personpath, pidx,
          writes, enqueues, dequeues, query, lcr_path, result, calls

vars == <<dict1, people, pc, start, cdict, queue, person, personpath, pidx,
          writes, enqueues, dequeues, query, lcr_path, result, calls>>

travVars == <<start, cdict, queue, person, personpath, pidx,
              writes, enqueues, dequeues>>

relVars == <<query, lcr_path, result, calls>>

-----------------------------------------------------------------------------
(* Bounds of the input descriptions.                                        *)

MaxPersons == 3
MaxEdges == 2
MaxCouples == 2
MaxParents == 2
MaxKin == 3
MaxLineage == 7

-----------------------------------------------------------------------------
(* Python values.                                                           *)

None == 0

Genders == {"F", "M"}

EmptyDict == <<>>

\* ord(c) of the three characters that occur in path codes and combined keys
Ord(c) == CASE c = ":" -> 58 [] c = "P" -> 80 [] c = "S" -> 83

\* s < t for Python strings: the first differing character decides, and a
\* proper prefix sorts before the longer string
RECURSIVE StrLess(_, _)
StrLess(s, t) ==
    IF t = <<>> THEN FALSE
    ELSE IF s = <<>> THEN TRUE
    ELSE IF Head(s) = Head(t) THEN StrLess(Tail(s), Tail(t))
    ELSE Ord(Head(s)) < Ord(Head(t))

\* c in s, for a one-character string c
Contains(s, c) == \E i \in 1..Len(s) : s[i] = c

\* d[k] = v on a dict
Put(d, k, v) == [x \in DOMAIN d \cup {k} |-> IF x = k THEN v ELSE d[x]]


-----------------------------------------------------------------------------
(* The kinship table of the relationships module: combined key -> the term  *)
(* for each gender.  Only the entries the scenarios of the design name.     *)

relationships ==
    (<<":", "P">> :> [F |-> "mother", M |-> "father"]) @@
    (<<"P", ":">> :> [F |-> "daughter", M |-> "son"]) @@
    (<<"P", ":", "P">> :> [F |-> "sister", M |-> "brother"])

-----------------------------------------------------------------------------
(* class Person                                                             *)

Person(name, gender) ==
    [name |-> name, gender |-> gender, parents |-> <<>>, spouse |-> None]

add_parent(self, parent) == [self EXCEPT !.parents = Append(@, parent)]

set_spouse(self, spouse) == [self EXCEPT !.spouse = spouse]

-----------------------------------------------------------------------------
(* Family.__init__                                                          *)

\* for name, gender in individuals.items(): self.people[name] = Person(...)
MakePeople(individuals) ==
    [name \in DOMAIN individuals |-> Person(name, individuals[name])]

\* for parent_name in parent_names: person.add_parent(parent)
RECURSIVE AddParentNames(_, _)
AddParentNames(p, parent_names) ==
    IF parent_names = <<>> THEN p
    ELSE AddParentNames(add_parent(p, Head(parent_names)), Tail(parent_names))

\* for person_name, parent_names in parents.items(): ...
AddParents(ppl, parents) ==
    [name \in DOMAIN ppl |->
        IF name \in DOMAIN parents
        THEN AddParentNames(ppl[name], parents[name])
        ELSE ppl[name]]

\* a variant of SetCouple that sets the spouse of the first Person only
SetCoupleOneWay(ppl, couple) ==
    [ppl EXCEPT ![couple[1]] = set_spouse(@, couple[2])]

\* person1.set_spouse(person2); person2.set_spouse(person1)
SetCouple(ppl, couple) ==
    LET one == [ppl EXCEPT ![couple[1]] = set_spouse(@, couple[2])]
    IN  [one EXCEPT ![couple[2]] = set_spouse(@, couple[1])]

\* for couple in couples: ...
RECURSIVE SetCouples(_, _)
SetCouples(ppl, couples) ==
    IF couples = <<>> THEN ppl
    ELSE SetCouples(SetCouple(ppl, Head(couples)), Tail(couples))

FamilyPeople(d) ==
    SetCouples(AddParents(MakePeople(d.individuals), d.parents), d.couples)

-----------------------------------------------------------------------------
(* Person.connections.  A traversal state is the dict, the queue, and three *)
(* history counters: the assignments and the appends per Person and the     *)
(* number of pops.                                                          *)

InitTraversal(ppl, self) ==
    [cdict |-> Put(EmptyDict, self, <<>>),
     queue |-> <<self>>,
     writes |-> [p \in DOMAIN ppl |-> IF p = self THEN 1 ELSE 0],
     enqueues |-> [p \in DOMAIN ppl |-> IF p = self THEN 1 ELSE 0],
     dequeues |-> 0]

\* cdict[who] = code; queue.append(who)
Assign(st, who, code) ==
    [st EXCEPT !.cdict = Put(@, who, code),
               !.queue = Append(@, who),
               !.writes[who] = @ + 1,
               !.enqueues[who] = @ + 1]

\* person = queue.pop(0)
Pop(st) == [st EXCEPT !.queue = Tail(@), !.dequeues = @ + 1]

\* if parent not in cdict: cdict[parent] = personpath + "P"; queue.append(parent)
VisitParent(st, parent, path) ==
    IF parent \notin DOMAIN st.cdict
    THEN Assign(st, parent, Append(path, "P"))
    ELSE st

\* for parent in person.parents: ...
RECURSIVE VisitParents(_, _, _)
VisitParents(st, parents, path) ==
    IF parents = <<>> THEN st
    ELSE VisitParents(VisitParent(st, Head(parents), path), Tail(parents), path)

\* a variant of VisitSpouse that follows a spouse edge from any path
VisitSpouseAnyPath(st, spouse, path) ==
    IF spouse # None /\ spouse \notin DOMAIN st.cdict
    THEN Assign(st, spouse, Append(path, "S"))
    ELSE st

\* a variant of VisitSpouse that does not test whether the spouse is known
VisitSpouseAgain(st, spouse, path) ==
    IF spouse # None /\ ~Contains(path, "S")
    THEN Assign(st, spouse, Append(path, "S"))
    ELSE st

\* if person.spouse and "S" not in personpath: if spouse not in cdict: ...
VisitSpouse(st, spouse, path) ==
    IF spouse # None /\ ~Contains(path, "S") /\ spouse \notin DOMAIN st.cdict
    THEN Assign(st, spouse, Append(path, "S"))
    ELSE st

\* one iteration of the while loop
LoopBody(ppl, st) ==
    LET p == Head(st.queue)
        path == st.cdict[p]
    IN  VisitSpouse(VisitParents(Pop(st), ppl[p].parents, path),
                    ppl[p].spouse, path)

\* while len(queue) > 0: ...
RECURSIVE RunLoop(_, _)
RunLoop(ppl, st) ==
    IF Len(st.queue) > 0 THEN RunLoop(ppl, LoopBody(ppl, st)) ELSE st

\* the returned cdict
Connections(ppl, self) == RunLoop(ppl, InitTraversal(ppl, self)).cdict

-----------------------------------------------------------------------------
(* Person.relation_to and Family.relation.  An outcome is the number of     *)
(* connections() calls that ran, the combined key selected (the empty       *)
(* string when none was) and what the caller gets.                          *)

NotRelated == "<None>"

Outcome(n, key, res) == [calls |-> n, lcr_path |-> key, result |-> res]

\* a variant of CombinedKey that puts the other Person's path first
CombinedKeySwapped(path1, path2) == path2 \o <<":">> \o path1

\* f"{path1}:{path2}"
CombinedKey(path1, path2) == path1 \o <<":">> \o path2

\* a variant of MinStr that takes the last string in order
MinStrLast(keys) == CHOOSE k \in keys : \A other \in keys : ~StrLess(k, other)

\* a variant of MinStr that compares the lengths before the characters
MinStrShortest(keys) ==
    CHOOSE k \in keys :
        \A other \in keys :
            \/ Len(k) < Len(other)
            \/ Len(k) = Len(other) /\ ~StrLess(other, k)

\* min(combined_paths)
MinStr(keys) == CHOOSE k \in keys : \A other \in keys : ~StrLess(other, k)

\* relationships.relationships[lcr_path][gender], or "distant relative"
Lookup(key, gender) ==
    IF key \in DOMAIN relationships
    THEN IF gender \in DOMAIN relationships[key]
         THEN relationships[key][gender]
         ELSE "KeyError"
    ELSE "distant relative"

\* a variant of RelationTo that looks the term up for the gender of relation
RelationToOtherGender(ppl, self, relation) ==
    LET connection1 == Connections(ppl, self)
    IN  IF relation = None
        THEN Outcome(1, <<>>, "AttributeError")
        ELSE LET connection2 == Connections(ppl, relation)
                 shared == DOMAIN connection1 \cap DOMAIN connection2
                 combined_paths ==
                     {CombinedKey(connection1[p], connection2[p]) : p \in shared}
             IN  IF shared = {}
                 THEN Outcome(2, <<>>, NotRelated)
                 ELSE Outcome(2, MinStr(combined_paths),
                              Lookup(MinStr(combined_paths), ppl[relation].gender))

\* self is a Person; relation is a Person or None
RelationTo(ppl, self, relation) ==
    LET connection1 == Connections(ppl, self)
    IN  IF relation = None
        THEN Outcome(1, <<>>, "AttributeError")
        ELSE LET connection2 == Connections(ppl, relation)
                 shared == DOMAIN connection1 \cap DOMAIN connection2
                 combined_paths ==
                     {CombinedKey(connection1[p], connection2[p]) : p \in shared}
             IN  IF shared = {}
                 THEN Outcome(2, <<>>, NotRelated)
                 ELSE Outcome(2, MinStr(combined_paths),
                              Lookup(MinStr(combined_paths), ppl[self].gender))

\* self.people.get(name): the Person of that name, or None
PeopleGet(ppl, name) == IF name \in DOMAIN ppl THEN name ELSE None

FamilyRelation(ppl, name1, name2) ==
    LET person1 == PeopleGet(ppl, name1)
        person2 == PeopleGet(ppl, name2)
    IN  IF person1 = None
        THEN Outcome(0, <<>>, "AttributeError")
        ELSE RelationTo(ppl, person1, person2)

-----------------------------------------------------------------------------
(* The input descriptions.                                                  *)

Lists(S, k) == UNION {[1..m -> S] : m \in 0..k}

Description(g, p, c) == [individuals |-> g, parents |-> p, couples |-> c]

\* the genders alternate along the names, from either one
GenderMaps(n) ==
    {g \in [1..n -> Genders] : \A i \in 1..(n - 1) : g[i] # g[i + 1]}

\* a couple is written with its smaller name first (set_spouse is called
\* both ways, so the other spelling builds the same graph)
Pairs(n) == {c \in (1..n) \X (1..n) : c[1] <= c[2]}

\* the parent lists of the Persons 1..k, of at most links names of 1..n in all
RECURSIVE AnyParents(_, _, _)
AnyParents(k, n, links) ==
    IF k = 0 THEN {<<>>}
    ELSE UNION {{Append(f, l) : f \in AnyParents(k - 1, n, links - Len(l))} :
                   l \in Lists(1..n, links)}

\* any description whose names resolve: a Person may be its own parent or
\* spouse, a parent may be listed twice, a Person may occur in several
\* couples; it holds at most MaxEdges parent links and couples in all
AnyDescriptions(n) ==
    UNION {{Description(g, p, c) :
               g \in GenderMaps(n),
               p \in AnyParents(n, n, MaxEdges - Len(c))} :
              c \in Lists(Pairs(n), MaxEdges)}

\* no Person occurs in two couples, and no couple is listed twice
IsMatching(couples) ==
    \A i, j \in 1..Len(couples) :
        i < j => /\ couples[i][1] < couples[j][1]
                 /\ {couples[i][1], couples[i][2]}
                        \cap {couples[j][1], couples[j][2]} = {}

Matchings(n) ==
    {c \in Lists({d \in Pairs(n) : d[1] # d[2]}, MaxCouples) : IsMatching(c)}

\* lists without repetition
Distinct(list) == \A i, j \in 1..Len(list) : i # j => list[i] # list[j]

\* the parent lists of the Persons 1..k when the parents of a Person have
\* smaller names, so that the parent relation is acyclic
RECURSIVE ElderParents(_)
ElderParents(k) ==
    IF k = 0 THEN {<<>>}
    ELSE {Append(f, l) :
             f \in ElderParents(k - 1),
             l \in {m \in Lists(1..(k - 1), MaxParents) : Distinct(m)}}

\* the well-formed descriptions: acyclic parents, the couples a matching
KinDescriptions(n) ==
    {Description(g, p, c) :
        g \in GenderMaps(n), p \in ElderParents(n), c \in Matchings(n)}

\* the parent lists of single lines of descent: a Person has no parent or
\* the name before its own as its only parent
RECURSIVE LineParents(_)
LineParents(k) ==
    IF k = 0 THEN {<<>>}
    ELSE {Append(f, l) :
             f \in LineParents(k - 1),
             l \in {<<>>} \cup {<<m>> : m \in {k - 1} \ {0}}}

LineageDescriptions(n) ==
    {Description(g, p, c) :
        g \in GenderMaps(n), p \in LineParents(n), c \in Matchings(n)}

-----------------------------------------------------------------------------
(* The state machine.                                                       *)

Idle ==
    /\ start = None
    /\ cdict = EmptyDict
    /\ queue = <<>>
    /\ person = None
    /\ personpath = <<>>
    /\ pidx = 0
    /\ writes = EmptyDict
    /\ enqueues = EmptyDict
    /\ dequeues = 0

NoQuery ==
    /\ query = <<>>
    /\ lcr_path = <<>>
    /\ result = ""
    /\ calls = 0

Init ==
    /\ dict1 \in AnyDescriptions(MaxPersons)
    /\ people = EmptyDict
    /\ pc = "new"
    /\ Idle
    /\ NoQuery

\* Family(dict1)
FamilyInit ==
    /\ pc = "new"
    /\ people' = FamilyPeople(dict1)
    /\ pc' = "ready"
    /\ UNCHANGED <<dict1, travVars, relVars>>

Current ==
    [cdict |-> cdict, queue |-> queue, writes |-> writes,
     enqueues |-> enqueues, dequeues |-> dequeues]

Becomes(st) ==
    /\ cdict' = st.cdict
    /\ queue' = st.queue
    /\ writes' = st.writes
    /\ enqueues' = st.enqueues
    /\ dequeues' = st.dequeues

\* connections() is called on a Person: lines 61-62
Start ==
    /\ pc = "ready"
    /\ \E self \in DOMAIN people :
          /\ start' = self
          /\ Becomes(InitTraversal(people, self))
    /\ pc' = "while"
    /\ UNCHANGED <<dict1, people, person, personpath, pidx, relVars>>

\* lines 63-65: the loop test holds; pop, read the path
Dequeue ==
    /\ pc = "while"
    /\ Len(queue) > 0
    /\ person' = Head(queue)
    /\ personpath' = cdict[Head(queue)]
    /\ pidx' = 1
    /\ Becomes(Pop(Current))
    /\ pc' = "for"
    /\ UNCHANGED <<dict1, people, start, relVars>>

\* lines 66-69: one iteration of the for loop
ParentStep ==
    /\ pc = "for"
    /\ pidx <= Len(people[person].parents)
    /\ Becomes(VisitParent(Current, people[person].parents[pidx], personpath))
    /\ pidx' = pidx + 1
    /\ UNCHANGED <<dict1, people, pc, start, person, personpath, relVars>>

\* lines 70-74: the for loop is over; the spouse
SpouseStep ==
    /\ pc = "for"
    /\ pidx > Len(people[person].parents)
    /\ Becomes(VisitSpouse(Current, people[person].spouse, personpath))
    /\ pc' = "while"
    /\ UNCHANGED <<dict1, people, start, person, personpath, pidx, relVars>>

\* line 75: the loop test fails
Return ==
    /\ pc = "while"
    /\ Len(queue) = 0
    /\ pc' = "returned"
    /\ UNCHANGED <<dict1, people, travVars, relVars>>

\* family.relation(name1, name2), for names of the description and one
\* name that is not in it
Relation ==
    /\ pc = "ready"
    /\ \E name1, name2 \in 1..(Cardinality(DOMAIN people) + 1) :
          LET o == FamilyRelation(people, name1, name2)
          IN  /\ query' = <<name1, name2>>
              /\ lcr_path' = o.lcr_path
              /\ result' = o.result
              /\ calls' = o.calls
    /\ pc' = "answered"
    /\ UNCHANGED <<dict1, people, travVars>>

\* person.connections() as one call: lines 61-75
Connect ==
    /\ pc = "ready"
    /\ \E self \in DOMAIN people :
          /\ start' = self
          /\ Becomes(RunLoop(people, InitTraversal(people, self)))
    /\ pc' = "returned"
    /\ UNCHANGED <<dict1, people, person, personpath, pidx, relVars>>

Traverse == Start \/ Dequeue \/ ParentStep \/ SpouseStep \/ Return

Next == FamilyInit \/ Traverse \/ Relation

Spec == Init /\ [][Next]_vars

\* the interpreter keeps running the loop of a call that has begun
FairSpec == Spec /\ WF_vars(Dequeue \/ ParentStep \/ SpouseStep \/ Return)

\* queries on well-formed families
KinInit ==
    /\ dict1 \in KinDescriptions(MaxKin)
    /\ people = EmptyDict
    /\ pc = "new"
    /\ Idle
    /\ NoQuery

KinNext == FamilyInit \/ Relation

KinSpec == KinInit /\ [][KinNext]_vars

\* connections() on well-formed lines of descent
LineageInit ==
    /\ dict1 \in LineageDescriptions(MaxLineage)
    /\ people = EmptyDict
    /\ pc = "new"
    /\ Idle
    /\ NoQuery

LineageNext == FamilyInit \/ Connect

LineageSpec == LineageInit /\ [][LineageNext]_vars

-----------------------------------------------------------------------------
(* What the properties below speak about.                                   *)

\* the number of spouse-steps of a path code
SCount(code) == Cardinality({i \in 1..Len(code) : code[i] = "S"})

Traversing == pc \in {"while", "for", "returned"}

\* a query of two Persons of the graph has been answered
AnsweredKnown ==
    /\ pc = "answered"
    /\ query[1] \in DOMAIN people
    /\ query[2] \in DOMAIN people

PathsFrom(x) == Connections(people, x)

SharedOf(a, b) == DOMAIN PathsFrom(a) \cap DOMAIN PathsFrom(b)

\* the combined key of the shared Person c in a.relation_to(b)
KeyOf(a, b, c) == PathsFrom(a)[c] \o <<":">> \o PathsFrom(b)[c]

\* the shared Persons whose combined key is the given one
Holders(a, b, key) == {c \in SharedOf(a, b) : KeyOf(a, b, c) = key}

SpouseOf(x) == people[x].spouse

SpousesSymmetric ==
    \A a \in DOMAIN people :
        SpouseOf(a) # None => SpouseOf(SpouseOf(a)) = a

\* any two couples of the list that share a name are the same pair
OnePartnerEach(couples) ==
    \A i, j \in 1..Len(couples) :
        LET ci == {couples[i][1], couples[i][2]}
            cj == {couples[j][1], couples[j][2]}
        IN  ci \cap cj # {} => ci = cj

\* The paths of parent edges and spouse edges with at most one spouse edge,
\* as walks over <<Person, spouse edges used>>.
Steps(ppl, x) ==
    {<<ppl[x[1]].parents[i], x[2]>> : i \in 1..Len(ppl[x[1]].parents)}
        \cup (IF x[2] = 0 /\ ppl[x[1]].spouse # None
              THEN {<<ppl[x[1]].spouse, 1>>}
              ELSE {})

RECURSIVE Within(_, _, _)
Within(ppl, s, k) ==
    IF k = 0 THEN {<<s, 0>>}
    ELSE LET w == Within(ppl, s, k - 1)
         IN  w \cup UNION {Steps(ppl, x) : x \in w}

PersonsWithin(ppl, s, k) == {x[1] : x \in Within(ppl, s, k)}

Reachable(ppl, s) == PersonsWithin(ppl, s, 2 * Cardinality(DOMAIN ppl))

Dist(ppl, s, y) ==
    CHOOSE k \in 0..(2 * Cardinality(DOMAIN ppl)) :
        /\ y \in PersonsWithin(ppl, s, k)
        /\ \A j \in 0..(k - 1) : y \notin PersonsWithin(ppl, s, j)

-----------------------------------------------------------------------------
(* C1: on a well-formed family, the keys of S.connections() are exactly the *)
(* Persons that a path of parent edges and spouse edges with at most one    *)
(* spouse edge leads to from S.                                             *)
C1_KeysAreTheReachable ==
    pc = "returned" => DOMAIN cdict = Reachable(people, start)

(* C2: on a well-formed family, the length of the path code of every key of *)
(* S.connections() is the least number of edges of such a path.             *)
C2_CodesAreShortest ==
    pc = "returned" =>
        \A y \in DOMAIN cdict : Len(cdict[y]) = Dist(people, start, y)

(* C3: in every state of the traversal and in the returned mapping, every   *)
(* path code holds at most one spouse-step, on malformed graphs too.        *)
C3_OneSpouseStep ==
    Traversing =>
        /\ \A p \in DOMAIN cdict : SCount(cdict[p]) <= 1
        /\ SCount(personpath) <= 1

\* a traversal returned after it refused a second spouse-step: a Person
\* reached through a spouse has a spouse that is not in the mapping
C3_Witness ==
    /\ pc = "returned"
    /\ \E p \in DOMAIN cdict :
          /\ SCount(cdict[p]) = 1
          /\ SpouseOf(p) # None
          /\ SpouseOf(p) \notin DOMAIN cdict

(* C4 as stated: the shared Person whose combined key A.relation_to(B)      *)
(* selects is the one B.relation_to(A) selects.                             *)
C4_SameRelativeBothWays ==
    AnsweredKnown /\ SharedOf(query[1], query[2]) # {} =>
        Holders(query[1], query[2], lcr_path)
            = Holders(query[2], query[1],
                      FamilyRelation(people, query[2], query[1]).lcr_path)

\* code1 sorts before code2, or they are equal
StrLeq(code1, code2) == code1 = code2 \/ StrLess(code1, code2)

\* c comes no later than d when the paths from a are compared first and the
\* paths from b break the tie
OwnSideFirst(a, b, c, d) ==
    \/ PathsFrom(a)[c] # PathsFrom(a)[d] /\ StrLess(PathsFrom(a)[c], PathsFrom(a)[d])
    \/ PathsFrom(a)[c] = PathsFrom(a)[d] /\ StrLeq(PathsFrom(b)[c], PathsFrom(b)[d])

(* C4, amended: the shared set is the same in both directions, but the      *)
(* selection is by the querying side: A.relation_to(B) selects the shared   *)
(* Persons whose path code from A is the lexicographic minimum, the path    *)
(* code from B breaking ties, so the two directions can select different    *)
(* Persons.                                                                 *)
C4_OwnSideDecides ==
    AnsweredKnown /\ SharedOf(query[1], query[2]) # {} =>
        /\ SharedOf(query[1], query[2]) = SharedOf(query[2], query[1])
        /\ Holders(query[1], query[2], lcr_path)
             = {c \in SharedOf(query[1], query[2]) :
                   \A d \in SharedOf(query[1], query[2]) :
                       OwnSideFirst(query[1], query[2], c, d)}

\* two different Persons were queried and the two directions select
\* different shared Persons
C4_Witness ==
    /\ AnsweredKnown
    /\ query[1] # query[2]
    /\ SharedOf(query[1], query[2]) # {}
    /\ Holders(query[1], query[2], lcr_path)
         # Holders(query[2], query[1],
                   FamilyRelation(people, query[2], query[1]).lcr_path)

C6_SelectedKeyShortest ==
    AnsweredKnown /\ SharedOf(query[1], query[2]) # {} =>
        \A c \in SharedOf(query[1], query[2]) :
            LET k == KeyOf(query[1], query[2], c)
            IN  /\ Len(lcr_path) <= Len(k)
                /\ Len(lcr_path) = Len(k) => StrLeq(lcr_path, k)

(* C6, amended: the selected combined key is the earliest in ASCII order    *)
(* among the combined keys of all shared Persons, of whatever length (so    *)
(* also among those of its own length); a shared Person with a shorter key  *)
(* can exist.                                                               *)
C6_SelectedKeyEarliest ==
    AnsweredKnown /\ SharedOf(query[1], query[2]) # {} =>
        /\ Holders(query[1], query[2], lcr_path) # {}
        /\ \A c \in SharedOf(query[1], query[2]) :
              ~StrLess(KeyOf(query[1], query[2], c), lcr_path)

\* a key was selected although a shared Person has a shorter one
C6_Witness ==
    /\ AnsweredKnown
    /\ \E c \in SharedOf(query[1], query[2]) :
          Len(KeyOf(query[1], query[2], c)) < Len(lcr_path)

(* C7: when A is a key of B.connections(), A.relation_to(B) selects ':'     *)
(* followed by B's path code to A, whatever else is shared; X.relation_to(X)*)
(* selects ':' and never returns None.                                      *)
C7_OwnKeyWins ==
    AnsweredKnown =>
        /\ query[1] \in DOMAIN PathsFrom(query[2]) =>
              /\ lcr_path = <<":">> \o PathsFrom(query[2])[query[1]]
              /\ result # NotRelated
        /\ query[1] = query[2] => lcr_path = <<":">> /\ result # NotRelated

\* A is reached from another Person B, and other Persons are shared
C7_Witness ==
    /\ AnsweredKnown
    /\ query[1] # query[2]
    /\ query[1] \in DOMAIN PathsFrom(query[2])
    /\ Cardinality(SharedOf(query[1], query[2])) > 1

(* C8 as stated: after Family construction the spouse relation is           *)
(* symmetric, for every couples list.                                       *)
C8_SpousesSymmetric == pc # "new" => SpousesSymmetric

(* C8, amended: after Family construction the spouse relation is symmetric  *)
(* provided no Person is paired with two different partners in the couples  *)
(* list (any two couples that share a name are the same pair).              *)
C8_SymmetricWhenOnePartner ==
    pc # "new" /\ OnePartnerEach(dict1.couples) => SpousesSymmetric

\* a family was built from two couples that pair every Person once
C8_Witness ==
    /\ pc = "ready"
    /\ Len(dict1.couples) = 2
    /\ dict1.couples[1] # dict1.couples[2]
    /\ OnePartnerEach(dict1.couples)
    /\ \E a \in DOMAIN people : SpouseOf(a) \notin {None, a}

(* C9: Family.relation with a name that is not in the graph ends in an      *)
(* error that is raised before any call of connections() has run,           *)
(* whichever of the two names is the unknown one.                           *)
C9_UnknownNameFailsFirst ==
    pc = "answered"
        /\ (query[1] \notin DOMAIN people \/ query[2] \notin DOMAIN people)
        => result = "AttributeError" /\ calls = 0

\* the counters of a traversal stay within their bounds
TraversalBounded ==
    Traversing =>
        /\ \A p \in DOMAIN people : writes[p] <= 1 /\ enqueues[p] <= 1
        /\ dequeues <= Cardinality(DOMAIN people)

(* C10: on every finite graph, malformed ones included, the traversal       *)
(* terminates: every Person is assigned a path code at most once and        *)
(* enqueued at most once, the dequeues never exceed the number of Persons,  *)
(* and a traversal that has begun returns with its queue empty.             *)
C10_TraversalTerminates ==
    /\ []TraversalBounded
    /\ (pc \in {"while", "for"}) ~> (pc = "returned" /\ queue = <<>>)

\* a traversal returned on a graph where two Persons are each other's
\* parent, each dequeued once
C10_Witness ==
    /\ pc = "returned"
    /\ dequeues = Cardinality(DOMAIN cdict)
    /\ \E p, q \in DOMAIN cdict :
          /\ p # q
          /\ Contains(people[p].parents, q)
          /\ Contains(people[q].parents, p)

=============================================================================
